---- MODULE Spec2Model ----
(***************************************************************************)
(* A model of app/utils.py (substitute_parameters) and of the request      *)
(* schemas of app/schemas.py.                                              *)
(*                                                                         *)
(* Strings are sequences of one-character strings, so that str.replace,    *)
(* str() and the regular expressions are computed character by character.  *)
(***************************************************************************)
EXTENDS Integers, Sequences, FiniteSets, TLC

(***************************************************************************)
(* Bounds of the model.                                                    *)
(***************************************************************************)
\* longest template, counted in pieces of Pieces
MaxPieces == 2
\* longest declaration list
MaxParams == 2
\* longest command name
MaxNameLen == 2

(***************************************************************************)
(* Python values (typing.Any): None, str, int, bool.                       *)
(***************************************************************************)
None == [tag |-> "NoneType", s |-> <<>>, n |-> 0]

PyStr(s) == [tag |-> "str", s |-> s, n |-> 0]

PyInt(n) == [tag |-> "int", s |-> <<>>, n |-> n]

PyBool(b) == [tag |-> "bool", s |-> <<>>, n |-> IF b THEN 1 ELSE 0]

Digits == <<"0", "1", "2", "3", "4", "5", "6", "7", "8", "9">>

RECURSIVE DecStr(_)
DecStr(n) ==
  IF n < 10 THEN <<Digits[n + 1]>>
  ELSE DecStr(n \div 10) \o <<Digits[(n % 10) + 1]>>

\* None becomes the empty string
str_NoneEmpty(val) ==
  CASE val.tag = "NoneType" -> <<>>
    [] val.tag = "str" -> val.s
    [] val.tag = "int" -> IF val.n < 0 THEN <<"-">> \o DecStr(0 - val.n)
                          ELSE DecStr(val.n)
    [] val.tag = "bool" -> IF val.n = 1 THEN <<"T", "r", "u", "e">>
                           ELSE <<"F", "a", "l", "s", "e">>

\* str(val)
str(val) ==
  CASE val.tag = "NoneType" -> <<"N", "o", "n", "e">>
    [] val.tag = "str" -> val.s
    [] val.tag = "int" -> IF val.n < 0 THEN <<"-">> \o DecStr(0 - val.n)
                          ELSE DecStr(val.n)
    [] val.tag = "bool" -> IF val.n = 1 THEN <<"T", "r", "u", "e">>
                           ELSE <<"F", "a", "l", "s", "e">>

(***************************************************************************)
(* schemas.Parameter: the fields substitute_parameters reads.  type,       *)
(* description, options and validation_regex are never read by it.         *)
(***************************************************************************)
Parameter(name, required, default) ==
  [name |-> name, required |-> required, default |-> default]

\* dict.get(key, default)
Get(d, key, default) == IF key \in DOMAIN d THEN d[key] ELSE default

\* val = values.get(param.name, param.default)
Resolve_DefaultFirst(vals, param) ==
  IF param.default # None THEN param.default ELSE Get(vals, param.name, None)

Resolve(vals, param) == Get(vals, param.name, param.default)

\* the dictionary after values.get: a read leaves it as it was
AfterGet_Pop(vals, param) ==
  [k \in (DOMAIN vals) \ {param.name} |-> vals[k]]

AfterGet(vals, param) == vals

\* bool(val) of Python
Truthy(val) ==
  CASE val.tag = "NoneType" -> FALSE
    [] val.tag = "str" -> val.s # <<>>
    [] val.tag = "int" -> val.n # 0
    [] val.tag = "bool" -> val.n = 1

\* if val is None
MustRaise_Optional(val, param) == val = None

\* if not val and param.required
MustRaise_Falsy(val, param) == (~Truthy(val)) /\ param.required

MustRaise(val, param) == val = None /\ param.required

\* f"{{{param.name}}}", which is "{name}"
Placeholder_SingleBrace(name) == <<"{">> \o name \o <<"}">>

\* f"{{{{{param.name}}}}}"
Placeholder(name) == <<"{", "{">> \o name \o <<"}", "}">>

StartsWith(s, old) == Len(s) >= Len(old) /\ SubSeq(s, 1, Len(old)) = old

\* re.sub(r"\{\{\w\}\}", new, s): every placeholder, whatever its name
RECURSIVE Replace_AnyName(_, _, _)
Replace_AnyName(s, old, new) ==
  IF Len(s) < 5 THEN s
  ELSE IF /\ SubSeq(s, 1, 2) = <<"{", "{">> /\ SubSeq(s, 4, 5) = <<"}", "}">>
          /\ s[3] \notin {"{", "}", "-"}
       THEN new \o Replace_AnyName(SubSeq(s, 6, Len(s)), old, new)
       ELSE <<s[1]>> \o Replace_AnyName(Tail(s), old, new)

\* s.replace(old, new, 1): the first occurrence only
Replace_First(s, old, new) ==
  LET hits == {i \in 1..(Len(s) - Len(old) + 1) : SubSeq(s, i, i + Len(old) - 1) = old}
  IN IF hits = {} THEN s
     ELSE LET i == CHOOSE h \in hits : \A j \in hits : h <= j
          IN SubSeq(s, 1, i - 1) \o new \o SubSeq(s, i + Len(old), Len(s))

\* s.replace(old, new) for a non-empty old: the occurrences are found from the
\* left and do not overlap; the text put in is not scanned again
RECURSIVE Replace(_, _, _)
Replace(s, old, new) ==
  IF Len(s) < Len(old) THEN s
  ELSE IF StartsWith(s, old)
       THEN new \o Replace(SubSeq(s, Len(old) + 1, Len(s)), old, new)
       ELSE <<s[1]>> \o Replace(Tail(s), old, new)

(***************************************************************************)
(* The inputs.                                                             *)
(***************************************************************************)
Names == {<<"a">>, <<"b">>}

\* a name no declaration carries
Unknown == <<"u">>

\* what templates are made of: the placeholders of a, b and u, literal text,
\* and a single-brace {a}, which is no placeholder
Pieces ==
  {Placeholder(<<"a">>), Placeholder(<<"b">>), Placeholder(Unknown), <<"-">>,
   <<"{", "a", "}">>}

RECURSIVE Concat(_)
Concat(ps) == IF ps = <<>> THEN <<>> ELSE Head(ps) \o Concat(Tail(ps))

\* the templates of the examples of the specification: "{{a}}-{{b}}", "{{a}}-{{a}}"
Examples ==
  {Placeholder(<<"a">>) \o <<"-">> \o Placeholder(n) : n \in Names}

Templates ==
  {Concat(ps) : ps \in UNION {[1..n -> Pieces] : n \in 0..MaxPieces}} \cup Examples

Supplied == {None, PyStr(<<"X">>), PyStr(Placeholder(<<"b">>)), PyInt(0)}

\* required without a default, optional without a default, required with the
\* default False.  An optional declaration with a default is left out: required is
\* read only when the value is None, so it goes the way of the required one.
Kinds == {<<TRUE, None>>, <<FALSE, None>>, <<TRUE, PyBool(FALSE)>>}

Parameters == {Parameter(n, k[1], k[2]) : n \in Names, k \in Kinds}

ParameterLists == UNION {[1..n -> Parameters] : n \in 0..MaxParams}

\* every map over the names, and the maps of "X" with one more key, under
\* the unknown name
ValueMaps ==
  UNION {[ks -> Supplied] : ks \in SUBSET Names}
    \cup UNION {[ks \cup {Unknown} -> {PyStr(<<"X">>)}] : ks \in SUBSET Names}

(***************************************************************************)
(* State.                                                                  *)
(***************************************************************************)
VARIABLES
  call,        \* the arguments as the callers passed them
  parameters,  \* the list object behind the parameters argument
  values,      \* the dict object behind the values argument
  pc,          \* per caller: "ready", "loop", "returned", "raised"
  query_text,  \* per caller: the local query_text
  idx,         \* per caller: position of the for loop in parameters
  outcome,     \* per caller: what the caller got back
  payload,     \* the last request body handed to a schema
  response     \* what the schema said of it: "none", "accepted", "rejected"

subVars == <<call, parameters, values, pc, query_text, idx, outcome>>

schemaVars == <<payload, response>>

vars == <<call, parameters, values, pc, query_text, idx, outcome, payload, response>>

NoPayload == [schema |-> "none", command_name |-> None, query_type |-> None]

NoOutcome == [kind |-> "none", text |-> <<>>, name |-> <<>>]

Returned(text) == [kind |-> "return", text |-> text, name |-> <<>>]

Raised(name) == [kind |-> "raise", text |-> <<>>, name |-> name]

InitWith(Callers, T, P, V) ==
  /\ call \in [query_text : T, parameters : P, values : V]
  /\ parameters = call.parameters
  /\ values = call.values
  /\ pc = [c \in Callers |-> "ready"]
  /\ query_text = [c \in Callers |-> <<>>]
  /\ idx = [c \in Callers |-> 0]
  /\ outcome = [c \in Callers |-> NoOutcome]
  /\ payload = NoPayload
  /\ response = "none"

\* one caller
Init == InitWith({1}, Templates, ParameterLists, ValueMaps)

\* two callers that were handed the same list and the same dict
InitConc == InitWith({1, 2}, Examples, ParameterLists, ValueMaps)

\* def substitute_parameters(query_text, parameters, values): entry
Call(c) ==
  /\ pc[c] = "ready"
  /\ pc' = [pc EXCEPT ![c] = "loop"]
  /\ query_text' = [query_text EXCEPT ![c] = call.query_text]
  /\ idx' = [idx EXCEPT ![c] = 1]
  /\ UNCHANGED <<call, parameters, values, outcome, payload, response>>

\* the body with the replace moved above the check
Iterate_ReplaceBeforeCheck(c) ==
  /\ pc[c] = "loop"
  /\ idx[c] <= Len(parameters)
  /\ LET param == parameters[idx[c]]
         val == Resolve(values, param)
     IN /\ values' = AfterGet(values, param)
        /\ query_text' = [query_text EXCEPT ![c] =
               Replace(query_text[c], Placeholder(param.name), str(val))]
        /\ IF MustRaise(val, param)
           THEN /\ pc' = [pc EXCEPT ![c] = "raised"]
                /\ outcome' = [outcome EXCEPT ![c] = Raised(param.name)]
                /\ UNCHANGED idx
           ELSE /\ idx' = [idx EXCEPT ![c] = idx[c] + 1]
                /\ UNCHANGED <<pc, outcome>>
  /\ UNCHANGED <<call, parameters, payload, response>>

\* one pass of the body of `for param in parameters`
Iterate(c) ==
  /\ pc[c] = "loop"
  /\ idx[c] <= Len(parameters)
  /\ LET param == parameters[idx[c]]
         val == Resolve(values, param)
     IN /\ values' = AfterGet(values, param)
        /\ IF MustRaise(val, param)
           THEN /\ pc' = [pc EXCEPT ![c] = "raised"]
                /\ outcome' = [outcome EXCEPT ![c] = Raised(param.name)]
                /\ UNCHANGED <<query_text, idx>>
           ELSE /\ query_text' = [query_text EXCEPT ![c] =
                       Replace(query_text[c], Placeholder(param.name), str(val))]
                /\ idx' = [idx EXCEPT ![c] = idx[c] + 1]
                /\ UNCHANGED <<pc, outcome>>
  /\ UNCHANGED <<call, parameters, payload, response>>

\* return query_text
Return(c) ==
  /\ pc[c] = "loop"
  /\ idx[c] > Len(parameters)
  /\ pc' = [pc EXCEPT ![c] = "returned"]
  /\ outcome' = [outcome EXCEPT ![c] = Returned(query_text[c])]
  /\ UNCHANGED <<call, parameters, values, query_text, idx, payload, response>>

Next ==
  \/ \E c \in DOMAIN pc : Call(c)
  \/ \E c \in DOMAIN pc : Iterate(c)
  \/ \E c \in DOMAIN pc : Return(c)

Spec == Init /\ [][Next]_vars

SpecConc == InitConc /\ [][Next]_vars

(***************************************************************************)
(* The request schemas: what HotCommandCreate and HotCommandUpdate accept. *)
(* user_id, query_text, domain, category, parameters and metadata carry no *)
(* constraint and are left out.                                            *)
(***************************************************************************)
LowerCase ==
  {"a", "b", "c", "d", "e", "f", "g", "h", "i", "j", "k", "l", "m",
   "n", "o", "p", "q", "r", "s", "t", "u", "v", "w", "x", "y", "z"}

UpperCase ==
  {"A", "B", "C", "D", "E", "F", "G", "H", "I", "J", "K", "L", "M",
   "N", "O", "P", "Q", "R", "S", "T", "U", "V", "W", "X", "Y", "Z"}

DigitChars == {"0", "1", "2", "3", "4", "5", "6", "7", "8", "9"}

\* where $ stands: the end of the string, or just before a newline that ends it
BeforeDollar(s) ==
  IF Len(s) >= 1 /\ s[Len(s)] = "\n" THEN {s, SubSeq(s, 1, Len(s) - 1)} ELSE {s}

\* re.match(r"^[a-zA-Z][a-zA-Z0-9_]*$", s)
CommandNameRegex(s) ==
  \E m \in BeforeDollar(s) :
    /\ Len(m) >= 1
    /\ m[1] \in LowerCase \cup UpperCase
    /\ \A i \in 2..Len(m) : m[i] \in LowerCase \cup UpperCase \cup DigitChars \cup {"_"}

QueryTypes ==
  {<<"n", "l", "2", "s", "q", "l">>,
   <<"d", "i", "r", "e", "c", "t", "_", "s", "q", "l">>,
   <<"t", "o", "o", "l", "_", "c", "a", "l", "l">>}

\* re.match(r"^(nl2sql|direct_sql|tool_call)$", s)
QueryTypeRegex(s) == \E m \in BeforeDollar(s) : m \in QueryTypes

\* HotCommandBase: command_name and query_type are required strings under regex
HotCommandBase(command_name, query_type) ==
  /\ command_name.tag = "str" /\ CommandNameRegex(command_name.s)
  /\ query_type.tag = "str" /\ QueryTypeRegex(query_type.s)

\* HotCommandUpdate: query_type: Optional[str] = None, no Field, no regex
HotCommandUpdate(query_type) == query_type.tag \in {"str", "NoneType"}

NameChars == {"a", "Z", "9", "_", "-"}

CommandNameInputs ==
  {PyStr(n) : n \in UNION {[1..k -> NameChars] : k \in 0..MaxNameLen}}

QueryTypeInputs ==
  {PyStr(q) : q \in QueryTypes} \cup {PyStr(<<"s", "q", "l">>), PyStr(<<>>)}

InitSchema == InitWith({1}, {<<>>}, {<<>>}, {<<>>})

\* a request body is parsed as HotCommandCreate
ValidateCreate ==
  \E cn \in CommandNameInputs, qt \in QueryTypeInputs :
    /\ payload' = [schema |-> "HotCommandCreate", command_name |-> cn,
                   query_type |-> qt]
    /\ response' = IF HotCommandBase(cn, qt) THEN "accepted" ELSE "rejected"
    /\ UNCHANGED subVars

\* a request body is parsed as HotCommandUpdate
ValidateUpdate ==
  \E qt \in QueryTypeInputs \cup {None} :
    /\ payload' = [schema |-> "HotCommandUpdate", command_name |-> None,
                   query_type |-> qt]
    /\ response' = IF HotCommandUpdate(qt) THEN "accepted" ELSE "rejected"
    /\ UNCHANGED subVars

NextSchema ==
  \/ ValidateCreate
  \/ ValidateUpdate

SpecSchema == InitSchema /\ [][NextSchema]_vars

(***************************************************************************)
(* What the properties are stated with: a second, independent reading of   *)
(* "replace every occurrence" and of the resolution rule.                  *)
(***************************************************************************)
Token(name) == <<"{", "{">> \o name \o <<"}", "}">>

Find(s, old) ==
  LET hits == {i \in 1..(Len(s) - Len(old) + 1) : SubSeq(s, i, i + Len(old) - 1) = old}
  IN IF hits = {} THEN 0 ELSE CHOOSE i \in hits : \A j \in hits : i <= j

RECURSIVE RefReplaceAll(_, _, _)
RefReplaceAll(s, old, new) ==
  LET i == Find(s, old)
  IN IF i = 0 THEN s
     ELSE SubSeq(s, 1, i - 1) \o new
            \o RefReplaceAll(SubSeq(s, i + Len(old), Len(s)), old, new)

\* the value a declaration resolves to: the supplied one if the key is there
Wanted(V, p) == IF p.name \in DOMAIN V THEN V[p.name] ELSE p.default

Unresolved(V, p) == p.required /\ Wanted(V, p) = None

FirstUnresolved(P, V) ==
  LET bad == {i \in 1..Len(P) : Unresolved(V, P[i])}
  IN IF bad = {} THEN 0 ELSE CHOOSE i \in bad : \A j \in bad : i <= j

\* the left fold over the first k declarations
RECURSIVE RefFold(_, _, _, _)
RefFold(t, P, V, k) ==
  IF k = 0 THEN t
  ELSE RefReplaceAll(RefFold(t, P, V, k - 1), Token(P[k].name), str(Wanted(V, P[k])))

RefOutcome(t, P, V) ==
  LET i == FirstUnresolved(P, V)
  IN IF i = 0 THEN Returned(RefFold(t, P, V, Len(P))) ELSE Raised(P[i].name)

Finished(c) == pc[c] \in {"returned", "raised"}

TokA == Token(<<"a">>)

TokB == Token(<<"b">>)

TokU == Token(Unknown)

Dash == <<"-">>

ParamA(r, d) == [name |-> <<"a">>, required |-> r, default |-> d]

ParamB(r, d) == [name |-> <<"b">>, required |-> r, default |-> d]

\* required, no default, no key in the value map
Missing(V, p) == p.required /\ p.default = None /\ p.name \notin DOMAIN V

\* no {{...}} token anywhere in t
NoPlaceholder(t) ==
  ~\E i \in 1..Len(t), j \in 1..Len(t) :
      /\ j >= i + 2 /\ j + 1 <= Len(t)
      /\ SubSeq(t, i, i + 1) = <<"{", "{">>
      /\ SubSeq(t, j, j + 1) = <<"}", "}">>

(***************************************************************************)
(* C1 as stated: whenever some declaration p is required, has no default   *)
(* and no key in values, the finished call has raised the error naming p,  *)
(* whatever the other declarations are.                                    *)
(***************************************************************************)
C1_NamesEveryMissing ==
  \A c \in DOMAIN pc :
    Finished(c) =>
      \A i \in 1..Len(call.parameters) :
        Missing(call.values, call.parameters[i]) =>
          outcome[c] = Raised(call.parameters[i].name)

(***************************************************************************)
(* C1 amended: whenever some declaration is required, has no default and   *)
(* no key in values, the finished call has raised the error, and the name  *)
(* it carries is that of the first declaration, in order, that is required *)
(* and resolves to null.                                                   *)
(***************************************************************************)
C1_RaisesNamingFirst ==
  \A c \in DOMAIN pc :
    (Finished(c) /\ \E i \in 1..Len(call.parameters) :
                       Missing(call.values, call.parameters[i])) =>
      /\ outcome[c].kind = "raise"
      /\ outcome[c].name =
           call.parameters[FirstUnresolved(call.parameters, call.values)].name

\* b is missing and so is a, declared before it: the error names a
C1_Witness ==
  /\ call.parameters = <<ParamA(TRUE, None), ParamB(TRUE, None)>>
  /\ call.values = << >>
  /\ pc[1] = "raised"
  /\ outcome[1] = Raised(<<"a">>)

(***************************************************************************)
(* C2 as stated: a finished call on a template with no placeholder has     *)
(* returned the template, for any declarations and values.                 *)
(***************************************************************************)
C2_AlwaysReturnsTemplate ==
  \A c \in DOMAIN pc :
    (Finished(c) /\ NoPlaceholder(call.query_text)) =>
      outcome[c] = Returned(call.query_text)

(***************************************************************************)
(* C2 amended: a call on a template with no placeholder that returns,      *)
(* returns the template unchanged; and it raises only when a required      *)
(* declaration resolves to null.                                           *)
(***************************************************************************)
C2_ReturnsTemplateUnlessRaised ==
  \A c \in DOMAIN pc :
    (Finished(c) /\ NoPlaceholder(call.query_text)) =>
      IF FirstUnresolved(call.parameters, call.values) = 0
      THEN outcome[c] = Returned(call.query_text)
      ELSE outcome[c].kind = "raise"

\* a template of literal text and a single-brace {a}, with a declared and supplied
C2_Witness ==
  /\ call.query_text = <<"{", "a", "}", "-">>
  /\ call.parameters = <<ParamA(TRUE, None)>>
  /\ call.values = [k \in {<<"a">>} |-> PyStr(<<"X">>)]
  /\ outcome[1] = Returned(<<"{", "a", "}", "-">>)

(***************************************************************************)
(* C3: while the loop runs the accumulated string is the left fold of      *)
(* "replace every occurrence of {{p.name}} by the stringified resolved     *)
(* value" over the declarations passed so far, and the returned string is  *)
(* the fold over all of them; so "{{a}}-{{a}}" with a = "X" gives "X-X",   *)
(* and "{{a}}-{{b}}" with a = "{{b}}", b = "X" gives "X-X".                *)
(***************************************************************************)
C3_LeftFold ==
  \A c \in DOMAIN pc :
    /\ pc[c] = "loop" =>
         query_text[c] =
           RefFold(call.query_text, call.parameters, call.values, idx[c] - 1)
    /\ pc[c] = "returned" =>
         /\ outcome[c] = Returned(RefFold(call.query_text, call.parameters,
                                          call.values, Len(call.parameters)))
         /\ (/\ call.query_text = TokA \o Dash \o TokA
             /\ call.parameters = <<ParamA(TRUE, None)>>
             /\ call.values = [k \in {<<"a">>} |-> PyStr(<<"X">>)])
              => outcome[c].text = <<"X", "-", "X">>
         /\ (/\ call.query_text = TokA \o Dash \o TokB
             /\ call.parameters = <<ParamA(TRUE, None), ParamB(TRUE, None)>>
             /\ call.values = [k \in Names |->
                                 IF k = <<"a">> THEN PyStr(TokB) ELSE PyStr(<<"X">>)])
              => outcome[c].text = <<"X", "-", "X">>

\* the sequential example has run to its end
C3_Witness ==
  /\ call.query_text = TokA \o Dash \o TokB
  /\ call.parameters = <<ParamA(TRUE, None), ParamB(TRUE, None)>>
  /\ call.values = [k \in Names |->
                      IF k = <<"a">> THEN PyStr(TokB) ELSE PyStr(<<"X">>)]
  /\ outcome[1] = Returned(<<"X", "-", "X">>)

(***************************************************************************)
(* C8 as stated: a finished call has failed if and only if some            *)
(* declaration is required and has neither a key in values nor a default.  *)
(***************************************************************************)
C8_FailsIffKeyAndDefaultAbsent ==
  \A c \in DOMAIN pc :
    Finished(c) =>
      (outcome[c].kind = "raise" <=>
         \E i \in 1..Len(call.parameters) :
           Missing(call.values, call.parameters[i]))

(***************************************************************************)
(* C8 amended: a finished call has failed if and only if some declaration  *)
(* is required and resolves to null (the supplied value if the key is in   *)
(* values, else the default); a required declaration that resolves to a    *)
(* value other than null, the empty string, 0 and false included, is never *)
(* the one the error names.                                                *)
(***************************************************************************)
C8_FailsIffResolvesNull ==
  \A c \in DOMAIN pc :
    Finished(c) =>
      /\ outcome[c].kind = "raise" <=>
           \E i \in 1..Len(call.parameters) :
             Unresolved(call.values, call.parameters[i])
      /\ outcome[c].kind = "raise" =>
           \E i \in 1..Len(call.parameters) :
             /\ call.parameters[i].name = outcome[c].name
             /\ Unresolved(call.values, call.parameters[i])

\* a required declaration supplied with 0: the call returns
C8_Witness ==
  /\ call.parameters = <<ParamA(TRUE, None)>>
  /\ call.values = [k \in {<<"a">>} |-> PyInt(0)]
  /\ call.query_text = TokA
  /\ outcome[1] = Returned(<<"0">>)

(***************************************************************************)
(* C9: a call that raised stopped at the first declaration, in order, that *)
(* is required and resolves to null: the error names that declaration, the *)
(* loop stands at it, the accumulated string holds the substitutions of    *)
(* the declarations before it and of none after, and the caller got no     *)
(* result string.  A call that has raised takes no further step.           *)
(***************************************************************************)
C9_StopsAtFirst ==
  \A c \in DOMAIN pc :
    pc[c] = "raised" =>
      LET i == FirstUnresolved(call.parameters, call.values)
      IN /\ i > 0
         /\ idx[c] = i
         /\ outcome[c] = Raised(call.parameters[i].name)
         /\ outcome[c].kind # "return" /\ outcome[c].text = <<>>
         /\ query_text[c] =
              RefFold(call.query_text, call.parameters, call.values, i - 1)
         /\ ~ENABLED (Call(c) \/ Iterate(c) \/ Return(c))

\* b then a, both required and unresolved: the error names b
C9_Witness ==
  /\ call.parameters = <<ParamB(TRUE, None), ParamA(TRUE, None)>>
  /\ call.values = << >>
  /\ call.query_text = TokA \o Dash \o TokB
  /\ pc[1] = "raised"
  /\ idx[1] = 1
  /\ outcome[1] = Raised(<<"b">>)

\* caller c takes the pass of the loop for the declaration it stands at
Pass(c) ==
  /\ pc[c] = "loop"
  /\ idx[c] <= Len(parameters)
  /\ (idx'[c] # idx[c] \/ pc'[c] # pc[c])

(***************************************************************************)
(* C4: in the pass for a declaration p, if values holds the key p.name the *)
(* supplied value is the one used, whatever the default: the pass raises   *)
(* exactly when p is required and the supplied value is null, and else     *)
(* every {{p.name}} becomes the stringified supplied value; if values has  *)
(* no such key and the default is not null, the pass does not raise, also  *)
(* for a required p, and every {{p.name}} becomes the stringified default. *)
(***************************************************************************)
C4_SuppliedThenDefault ==
  [][\A c \in DOMAIN pc :
       Pass(c) =>
         LET p == parameters[idx[c]]
         IN /\ p.name \in DOMAIN values =>
                 IF p.required /\ values[p.name] = None
                 THEN pc'[c] = "raised"
                 ELSE /\ pc'[c] = "loop"
                      /\ query_text'[c] =
                           RefReplaceAll(query_text[c], Token(p.name),
                                         str(values[p.name]))
            /\ (p.name \notin DOMAIN values /\ p.default # None) =>
                 /\ pc'[c] = "loop"
                 /\ query_text'[c] =
                      RefReplaceAll(query_text[c], Token(p.name), str(p.default))]_vars

\* a required b with the default False and no key, after a supplied a that
\* has a default too: "{{a}}-{{b}}" became "X-False"
C4_Witness ==
  /\ call.query_text = TokA \o Dash \o TokB
  /\ call.parameters = <<ParamA(TRUE, PyBool(FALSE)), ParamB(TRUE, PyBool(FALSE))>>
  /\ call.values = [k \in {<<"a">>} |-> PyStr(<<"X">>)]
  /\ outcome[1] = Returned(<<"X", "-", "F", "a", "l", "s", "e">>)

(***************************************************************************)
(* C5: in the pass for a declaration with required = false, no default and *)
(* no key in values, the call does not raise and every {{name}} of it      *)
(* becomes the four characters None: where the placeholder occurs, the     *)
(* text is neither left as it was nor the one with the placeholder taken   *)
(* out.                                                                    *)
(***************************************************************************)
C5_AbsentOptionalIsNone ==
  [][\A c \in DOMAIN pc :
       (/\ Pass(c)
        /\ ~parameters[idx[c]].required
        /\ parameters[idx[c]].default = None
        /\ parameters[idx[c]].name \notin DOMAIN values) =>
         LET tok == Token(parameters[idx[c]].name)
         IN /\ pc'[c] = "loop"
            /\ query_text'[c] =
                 RefReplaceAll(query_text[c], tok, <<"N", "o", "n", "e">>)
            /\ Find(query_text[c], tok) # 0 =>
                 /\ query_text'[c] # query_text[c]
                 /\ query_text'[c] # RefReplaceAll(query_text[c], tok, <<>>)]_vars

\* "-{{a}}" with an optional a, no default, no value: "-None"
C5_Witness ==
  /\ call.query_text = Dash \o TokA
  /\ call.parameters = <<ParamA(FALSE, None)>>
  /\ call.values = << >>
  /\ outcome[1] = Returned(<<"-", "N", "o", "n", "e">>)

DeclaredNames(P) == {P[i].name : i \in 1..Len(P)}

Restrict(V, ks) == [k \in (DOMAIN V) \cap ks |-> V[k]]

Occurrences(t, tok) ==
  {i \in 1..(Len(t) - Len(tok) + 1) : SubSeq(t, i, i + Len(tok) - 1) = tok}

C7_PureUnderInterleaving ==
  /\ parameters = call.parameters
  /\ values = call.values
  /\ \A c \in DOMAIN pc :
       Finished(c) =>
         outcome[c] = RefOutcome(call.query_text, call.parameters, call.values)

\* caller 1 has returned while caller 2 stands in the middle of its loop
C7_Witness ==
  /\ DOMAIN pc = {1, 2}
  /\ Len(call.parameters) = 2
  /\ <<"a">> \in DOMAIN call.values
  /\ pc[1] = "returned"
  /\ pc[2] = "loop"
  /\ idx[2] = 2

(***************************************************************************)
(* C10: every payload a request schema accepted satisfies the field        *)
(* constraints: its command_name, where the schema has one, is a letter    *)
(* followed by letters, digits and underscores, and its query_type, where  *)
(* it carries one, is nl2sql, direct_sql or tool_call.                     *)
(***************************************************************************)
C10_AcceptedWithinConstraints ==
  response = "accepted" =>
    /\ payload.schema = "HotCommandCreate" =>
         /\ Len(payload.command_name.s) >= 1
         /\ payload.command_name.s[1] \in LowerCase \cup UpperCase
         /\ \A i \in 2..Len(payload.command_name.s) :
              payload.command_name.s[i]
                \in LowerCase \cup UpperCase \cup DigitChars \cup {"_"}
    /\ payload.query_type # None =>
         /\ payload.query_type.tag = "str"
         /\ payload.query_type.s \in QueryTypes

====
